---- MODULE Spec2Model ----
(***************************************************************************)
(* State-machine model of convert_to_everyayah.py: the timing resolver     *)
(* (download_reference_ayah, get_audio_duration,                           *)
(* get_ayah_timings_from_reference), the segment extractor (split_surah),  *)
(* the orchestration loop (convert_all) and the preflight (check_ffmpeg,   *)
(* main).  External collaborators (the network fetch, ffprobe, ffmpeg)     *)
(* are nondeterministic outcomes.  Durations are integers (seconds); the   *)
(* code only adds them.  File names "cccvvv.mp3" are the number            *)
(* ccc * 1000 + vvv.                                                       *)
(***************************************************************************)
EXTENDS Integers, Sequences, FiniteSets, TLC

\* ---------------------------------------------------------------- bounds
\* The per-verse loop of the resolver is cut after MaxAyahs verses.
MaxAyahs == 2
\* The probe returns a duration in 0..MaxDur, or fails.
MaxDur == 2
\* convert_all is called on ranges of at most MaxRangeLen chapters.
MaxRangeLen == 2

\* ------------------------------------------------------- program constants
AYAH_COUNTS ==
  << 7, 286, 200, 176, 120, 165, 206, 75, 129, 109, 123, 111, 43, 52, 99,
     128, 111, 110, 98, 135, 112, 78, 118, 64, 77, 227, 93, 88, 69, 60,
     34, 30, 73, 54, 45, 83, 182, 88, 75, 85, 54, 53, 89, 59, 37, 35, 38,
     29, 18, 45, 60, 49, 62, 55, 78, 96, 29, 22, 24, 13, 14, 11, 11, 18,
     12, 12, 30, 52, 52, 44, 28, 28, 20, 56, 40, 31, 50, 40, 46, 42, 29,
     19, 36, 25, 22, 17, 19, 26, 30, 20, 15, 21, 11, 8, 8, 19, 5, 8, 8,
     11, 11, 8, 3, 9, 5, 4, 7, 3, 6, 3, 5, 4, 5, 6 >>

\* Start chapters the caller may give: below the table (0), inside it with
\* few verses (108), and at its end (114, so that 115 is in reach).
StartSurahs == {0, 108, 114}

\* self.reference_dir = Path("everyayah_reference_48kbps")
RefDir == "everyayah_reference_48kbps"
\* the input folder the user entered
InputDir == "input_surahs"
\* Output folders the user may enter: the default, the reference cache
\* folder and the input folder.
OutputDirs == {"Parhizgar_128kbps", RefDir, InputDir}

\* get_audio_duration returns None (NoneVal) or a float.
NoneVal == -1
\* download_reference_ayah returned None: the probe is not called.
NoFile == -2
Durations == 0 .. MaxDur
FetchOutcomes == {"ok", "fail", "fail_partial"}
TrimOutcomes == {"ok", "nonzero", "invoke_error"}

VARIABLES
  pc,               \* position of the single thread of control
  preflight,        \* "pending", "ok", "failed": result of check_ffmpeg
  constructed,      \* EveryAyahConverter.__init__ has made the directories
  start_surah, end_surah,   \* arguments of convert_all
  output_dir,       \* the output folder the user entered
  run,              \* number of the current run of the program
  prev_outputs,     \* the output segments when the current run started
  prev_pc,          \* how the previous run ended ("" in the first run)
  input_files,      \* chapters c with <input_dir>/ccc.mp3 present
  cache,            \* file codes present in everyayah_reference_48kbps
  outputs,          \* output directory: set of <<code, start, duration, codec>>
  new_outputs,      \* file codes written by this run
  writes,           \* the output segments written by this run
  surah,            \* loop variable of convert_all
  ayah_count,       \* local of get_ayah_timings_from_reference
  ayah,             \* loop variable of the resolver
  timings,          \* list of records [ayah, start, duration, end]
  cumulative_time,
  idx,              \* position of the extractor loop in timings
  results,          \* per verse of this chapter: NoFile, NoneVal or duration
  fetch_log,        \* verses of this chapter fetched over the network
  cached_at_fetch,  \* a fetch was made while the file was in the cache
  probe_log,        \* verses of this chapter probed
  trim_log,         \* trim invocations of this chapter
  processed,        \* chapters split_surah was called for in this run
  completed,        \* chapters whose split_surah call returned in this run
  empty_chapters,   \* chapters skipped because the resolver returned no record
  crash             \* "" or the exception that ended the run

vars == << pc, preflight, constructed, start_surah, end_surah, output_dir,
           run, prev_outputs, prev_pc,
           input_files, cache, outputs, new_outputs, writes, surah, ayah_count, ayah,
           timings, cumulative_time, idx, results, fetch_log, cached_at_fetch,
           probe_log, trim_log, processed, completed, empty_chapters, crash >>

\* variable groups for UNCHANGED; env is what no step of a run changes
env == << start_surah, end_surah, input_files, output_dir, run,
         prev_outputs, prev_pc >>
resolver == << ayah_count, ayah, timings, cumulative_time, results,
               fetch_log, cached_at_fetch, probe_log >>
extractor == << idx, trim_log >>

\* ------------------------------------------------------------- helpers
\* f"{surah:03d}{ayah:03d}.mp3"
FileCode(s, a) == s * 1000 + a

\* Python's AYAH_COUNTS[i]: negative indices count from the end, anything
\* outside -len..len-1 raises IndexError.
IndexInRange(i) == i >= -Len(AYAH_COUNTS) /\ i < Len(AYAH_COUNTS)
PyIndex(i) == IF i >= 0 THEN AYAH_COUNTS[i + 1]
              ELSE AYAH_COUNTS[Len(AYAH_COUNTS) + i + 1]

Min(a, b) == IF a <= b THEN a ELSE b

\* last verse the resolver loop visits: range(1, ayah_count + 1), cut at
\* the bound MaxAyahs
LastAyah(n) == Min(n, MaxAyahs)

\* mutant: the cache is never consulted
CacheHitBug(s, a) == FALSE

\* mutant: every file is taken to be cached
CacheHitAlwaysBug(s, a) == TRUE

\* output_path.exists()
CacheHit(s, a) == FileCode(s, a) \in cache

\* mutant: None passes the test
TruthyNoneBug(d) == d # 0

\* mutant: only None is skipped, 0.0 passes
TruthyZeroBug(d) == d # NoneVal

\* `if duration:` -- None and 0.0 are both falsy
Truthy(d) == d # NoneVal /\ d # 0

\* mutant: the end offset is the duration alone
NewTimingEndBug(a, cum, d) ==
  [ayah |-> a, start |-> cum, duration |-> d, end |-> d]

\* mutant: the verse index is counted from 0
NewTimingAyahBug(a, cum, d) ==
  [ayah |-> a - 1, start |-> cum, duration |-> d, end |-> cum + d]

\* the record appended for a verse
NewTiming(a, cum, d) ==
  [ayah |-> a, start |-> cum, duration |-> d, end |-> cum + d]

\* mutant: the cumulative time is not advanced
AdvanceBug(cum, d) == cum

\* cumulative_time += duration
Advance(cum, d) == cum + d

\* `except subprocess.CalledProcessError` around the fast trim
FastCaught(o) == o = "nonzero"

\* `except Exception` around the fallback trim
FallbackCaught(o) == o \in {"nonzero", "invoke_error"}

\* argument lists of the two ffmpeg invocations
FastArgs(s, t) ==
  [src |-> s, ss |-> t.start, t |-> t.duration, codec |-> "copy",
   dst |-> FileCode(s, t.ayah)]
FallbackArgs(s, t) ==
  [src |-> s, ss |-> t.start, t |-> t.duration, codec |-> "libmp3lame128k",
   dst |-> FileCode(s, t.ayah)]

\* A path is <<folder, digits of the name, number of the name>>.
\* self.output_dir / f"{surah:03d}{ayah:03d}.mp3"
OutputPath(code) == << output_dir, 6, code >>
\* self.reference_dir / f"{surah:03d}{ayah:03d}.mp3"
RefPath(code) == << RefDir, 6, code >>
\* self.input_dir / f"{surah:03d}.mp3"
InputPath(s) == << InputDir, 3, s >>

\* the reference folder after ffmpeg wrote the output file `code`: when the
\* output folder is the reference folder the file is a file of the cache
TrimCache(c, code) ==
  IF OutputPath(code) = RefPath(code) THEN c \cup {code} ELSE c

\* mutant: the loop does not move on to the next record
NextRecordBug(i) == i

\* `for timing in timings`: the next record
NextRecord(i) == i + 1

\* mutant: an existing destination is kept beside the new file
WriteOutputKeepBug(out, args) ==
  out \cup {<< args.dst, args.ss, args.t, args.codec >>}

\* ffmpeg -y: the destination is overwritten
WriteOutput(out, args) ==
  {f \in out : f[1] # args.dst}
     \cup {<< args.dst, args.ss, args.t, args.codec >>}

\* mutant: the result of the preflight is ignored
PreflightAbortsBug(found) == FALSE

\* `if not check_ffmpeg(): return`
PreflightAborts(found) == ~found

\* mutant: the input file is never found missing
InputMissingBug(s) == FALSE

\* `if not input_file.exists()`
InputMissing(s) == s \notin input_files

\* `if not timings`
NoTimings(ts) == ts = << >>

\* ------------------------------------------------------------------ Init
RangeOf(s, e) == s .. e

\* reference files earlier runs may have left for the chapters of the range
RangeAssets(s, e) ==
  {FileCode(c, a) : c \in RangeOf(s, e), a \in 1 .. MaxAyahs}

\* the state when main() is entered, for the given start chapters and
\* longest range
InitWith(starts, maxlen) ==
  /\ pc = "main"
  /\ preflight = "pending"
  /\ constructed = FALSE
  /\ start_surah \in starts
  /\ output_dir \in OutputDirs
  /\ run = 1
  /\ prev_outputs = {}
  /\ prev_pc = ""
  /\ end_surah \in (start_surah - 1) .. (start_surah + maxlen - 1)
  /\ input_files \in SUBSET RangeOf(start_surah, end_surah)
  /\ cache \in SUBSET RangeAssets(start_surah, end_surah)
  /\ outputs = {}
  /\ new_outputs = {}
  /\ writes = {}
  /\ surah = 0
  /\ ayah_count = 0
  /\ ayah = 0
  /\ timings = << >>
  /\ cumulative_time = 0
  /\ idx = 0
  /\ results = << >>
  /\ fetch_log = << >>
  /\ cached_at_fetch = FALSE
  /\ probe_log = << >>
  /\ trim_log = << >>
  /\ processed = {}
  /\ completed = {}
  /\ empty_chapters = {}
  /\ crash = ""

Init == InitWith(StartSurahs, MaxRangeLen)

\* ------------------------------------------------------- main, preflight
\* check_ffmpeg() and the `if not check_ffmpeg(): ... return` of main
CheckFfmpeg ==
  /\ pc = "main"
  /\ \E found \in BOOLEAN :
       /\ preflight' = IF found THEN "ok" ELSE "failed"
       /\ pc' = IF PreflightAborts(found) THEN "aborted" ELSE "init"
  /\ UNCHANGED << constructed, env, cache, outputs, new_outputs, writes, surah,
                  resolver, extractor, processed, completed, empty_chapters,
                  crash >>

\* EveryAyahConverter(input_dir, output_dir): both directories are made
Construct ==
  /\ pc = "init"
  /\ constructed' = TRUE
  /\ pc' = "convert_all"
  /\ UNCHANGED << preflight, env, cache, outputs, new_outputs, writes, surah,
                  resolver, extractor, processed, completed, empty_chapters,
                  crash >>

\* ------------------------------------------------------------ convert_all
\* for surah in range(start_surah, end_surah + 1): first value
ConvertAllBegin ==
  /\ pc = "convert_all"
  /\ surah' = start_surah
  /\ pc' = "loop"
  /\ UNCHANGED << preflight, constructed, env, cache, outputs,
                  new_outputs, writes, resolver, extractor, processed, completed,
                  empty_chapters, crash >>

\* the range is exhausted: the completion banner is printed
ConvertAllDone ==
  /\ pc = "loop"
  /\ surah > end_surah
  /\ pc' = "done"
  /\ UNCHANGED << preflight, constructed, env, cache, outputs,
                  new_outputs, writes, surah, resolver, extractor, processed,
                  completed, empty_chapters, crash >>

\* ------------------------------------------------------------ split_surah
\* split_surah(surah) with the input file absent: return False
SplitSurahMissing ==
  /\ pc = "loop"
  /\ surah <= end_surah
  /\ InputMissing(surah)
  /\ processed' = processed \cup {surah}
  /\ completed' = completed \cup {surah}
  /\ surah' = surah + 1
  /\ UNCHANGED << pc, preflight, constructed, env, cache, outputs,
                  new_outputs, writes, resolver, extractor, empty_chapters, crash >>

\* split_surah(surah) with the input file present: the resolver is called
SplitSurahFound ==
  /\ pc = "loop"
  /\ surah <= end_surah
  /\ ~InputMissing(surah)
  /\ processed' = processed \cup {surah}
  /\ pc' = "timings"
  /\ UNCHANGED << preflight, constructed, env, cache, outputs,
                  new_outputs, writes, surah, resolver, extractor, completed,
                  empty_chapters, crash >>

\* ---------------------------------------- get_ayah_timings_from_reference
\* ayah_count = AYAH_COUNTS[surah - 1]; timings = []; cumulative_time = 0
GetAyahTimingsBegin ==
  /\ pc = "timings"
  /\ IndexInRange(surah - 1)
  /\ ayah_count' = PyIndex(surah - 1)
  /\ timings' = << >>
  /\ cumulative_time' = 0
  /\ ayah' = 1
  /\ results' = << >>
  /\ fetch_log' = << >>
  /\ probe_log' = << >>
  /\ trim_log' = << >>
  /\ idx' = 0
  /\ pc' = "download"
  /\ UNCHANGED << preflight, constructed, env, cache, outputs,
                  new_outputs, writes, surah, cached_at_fetch, processed, completed,
                  empty_chapters, crash >>

\* the table lookup raises IndexError; nothing up to main catches it
GetAyahTimingsIndexError ==
  /\ pc = "timings"
  /\ ~IndexInRange(surah - 1)
  /\ crash' = "IndexError"
  /\ pc' = "crashed"
  /\ UNCHANGED << preflight, constructed, env, cache, outputs,
                  new_outputs, writes, surah, resolver, extractor, processed,
                  completed, empty_chapters >>

\* download_reference_ayah: the file is in the cache, its path is returned
DownloadCached ==
  /\ pc = "download"
  /\ ayah <= LastAyah(ayah_count)
  /\ CacheHit(surah, ayah)
  /\ pc' = "probe"
  /\ UNCHANGED << preflight, constructed, env, cache, outputs,
                  new_outputs, writes, surah, resolver, extractor, processed,
                  completed, empty_chapters, crash >>

\* download_reference_ayah: urlretrieve is called.  It returns ("ok"),
\* raises before the file is opened ("fail"), or raises during the transfer
\* and leaves the part it wrote ("fail_partial").  On an exception None is
\* returned and the resolver goes on with the next verse.
DownloadFetch ==
  /\ pc = "download"
  /\ ayah <= LastAyah(ayah_count)
  /\ ~CacheHit(surah, ayah)
  /\ fetch_log' = Append(fetch_log, ayah)
  /\ cached_at_fetch' = (cached_at_fetch \/ FileCode(surah, ayah) \in cache)
  /\ \E o \in FetchOutcomes :
       /\ cache' = IF o = "fail" THEN cache
                   ELSE cache \cup {FileCode(surah, ayah)}
       /\ IF o = "ok"
          THEN /\ pc' = "probe"
               /\ UNCHANGED << ayah, results >>
          ELSE /\ results' = Append(results, NoFile)
               /\ ayah' = ayah + 1
               /\ pc' = "download"
  /\ UNCHANGED << preflight, constructed, env, outputs, new_outputs, writes,
                  surah, ayah_count, timings, cumulative_time, probe_log,
                  extractor, processed, completed, empty_chapters, crash >>

\* get_audio_duration and the `if duration:` block of the resolver loop
GetAudioDuration ==
  /\ pc = "probe"
  /\ probe_log' = Append(probe_log, ayah)
  /\ \E d \in {NoneVal} \cup Durations :
       /\ results' = Append(results, d)
       /\ IF Truthy(d)
          THEN /\ timings' = Append(timings,
                                    NewTiming(ayah, cumulative_time, d))
               /\ cumulative_time' = Advance(cumulative_time, d)
          ELSE UNCHANGED << timings, cumulative_time >>
  /\ ayah' = ayah + 1
  /\ pc' = "download"
  /\ UNCHANGED << preflight, constructed, env, cache, outputs,
                  new_outputs, writes, surah, ayah_count, fetch_log, cached_at_fetch,
                  extractor, processed, completed, empty_chapters, crash >>

\* the resolver returned an empty list: split_surah returns False
SplitSurahNoTimings ==
  /\ pc = "download"
  /\ ayah > LastAyah(ayah_count)
  /\ NoTimings(timings)
  /\ completed' = completed \cup {surah}
  /\ empty_chapters' = empty_chapters \cup {surah}
  /\ surah' = surah + 1
  /\ pc' = "loop"
  /\ UNCHANGED << preflight, constructed, env, cache, outputs,
                  new_outputs, writes, resolver, extractor, processed, crash >>

\* the resolver returned records: the extractor loop starts
SplitSurahBegin ==
  /\ pc = "download"
  /\ ayah > LastAyah(ayah_count)
  /\ ~NoTimings(timings)
  /\ idx' = 1
  /\ pc' = "fast"
  /\ UNCHANGED << preflight, constructed, env, cache, outputs,
                  new_outputs, writes, surah, resolver, trim_log, processed,
                  completed, empty_chapters, crash >>

\* ------------------------------------------------ split_surah: extraction
TrimEntry(m, a, o) == [idx |-> idx, mode |-> m, args |-> a, outcome |-> o]

\* the stream-copy trim of record idx.  A non-zero exit raises
\* CalledProcessError, which the handler catches; any other exception
\* (ffmpeg cannot be started) leaves split_surah and convert_all.
FastTrim ==
  /\ pc = "fast"
  /\ idx <= Len(timings)
  /\ \E o \in TrimOutcomes :
       LET a == FastArgs(surah, timings[idx]) IN
       /\ trim_log' = Append(trim_log, TrimEntry("fast", a, o))
       /\ IF o = "ok"
          THEN /\ outputs' = WriteOutput(outputs, a)
               /\ writes' = WriteOutput(writes, a)
               /\ new_outputs' = new_outputs \cup {a.dst}
               /\ cache' = TrimCache(cache, a.dst)
               /\ idx' = NextRecord(idx)
               /\ UNCHANGED << pc, crash >>
          ELSE IF FastCaught(o)
          THEN /\ pc' = "fallback"
               /\ UNCHANGED << outputs, new_outputs, writes, cache, idx,
                               crash >>
          ELSE /\ crash' = "OSError"
               /\ pc' = "crashed"
               /\ UNCHANGED << outputs, new_outputs, writes, cache, idx >>
  /\ UNCHANGED << preflight, constructed, env, surah, resolver,
                  processed, completed, empty_chapters >>

\* the re-encoding trim of record idx, inside `except Exception`
FallbackTrim ==
  /\ pc = "fallback"
  /\ \E o \in TrimOutcomes :
       LET a == FallbackArgs(surah, timings[idx]) IN
       /\ trim_log' = Append(trim_log, TrimEntry("fallback", a, o))
       /\ IF o = "ok"
          THEN /\ outputs' = WriteOutput(outputs, a)
               /\ writes' = WriteOutput(writes, a)
               /\ new_outputs' = new_outputs \cup {a.dst}
               /\ cache' = TrimCache(cache, a.dst)
               /\ idx' = NextRecord(idx)
               /\ pc' = "fast"
               /\ UNCHANGED crash
          ELSE IF FallbackCaught(o)
          THEN /\ idx' = NextRecord(idx)
               /\ pc' = "fast"
               /\ UNCHANGED << outputs, new_outputs, writes, cache, crash >>
          ELSE /\ crash' = "OSError"
               /\ pc' = "crashed"
               /\ UNCHANGED << outputs, new_outputs, writes, cache, idx >>
  /\ UNCHANGED << preflight, constructed, env, surah, resolver,
                  processed, completed, empty_chapters >>

\* the extractor loop is over: split_surah returns True
SplitSurahReturn ==
  /\ pc = "fast"
  /\ idx > Len(timings)
  /\ completed' = completed \cup {surah}
  /\ surah' = surah + 1
  /\ pc' = "loop"
  /\ UNCHANGED << preflight, constructed, env, cache, outputs,
                  new_outputs, writes, resolver, extractor, processed, empty_chapters,
                  crash >>

Next ==
  \/ CheckFfmpeg
  \/ Construct
  \/ ConvertAllBegin
  \/ ConvertAllDone
  \/ SplitSurahMissing
  \/ SplitSurahFound
  \/ GetAyahTimingsBegin
  \/ GetAyahTimingsIndexError
  \/ DownloadCached
  \/ DownloadFetch
  \/ GetAudioDuration
  \/ SplitSurahNoTimings
  \/ SplitSurahBegin
  \/ FastTrim
  \/ FallbackTrim
  \/ SplitSurahReturn

Spec == Init /\ [][Next]_vars

\* ------------------------------------------------------------- second run
\* The program is run at most MaxRuns times over the same folders.
MaxRuns == 2
\* Ranges of the runs that are repeated have at most RerunRangeLen chapters.
RerunRangeLen == 1
\* their start chapters: one of three verses, and one behind the table
RerunStartSurahs == {108, 115}

TerminalPcs == {"done", "crashed", "aborted"}

\* main() has returned or raised; the user starts the program again with
\* the same answers.  The folders keep their files, everything else is new.
Rerun ==
  /\ pc \in TerminalPcs
  /\ run < MaxRuns
  /\ run' = run + 1
  /\ prev_outputs' = outputs
  /\ prev_pc' = pc
  /\ pc' = "main"
  /\ preflight' = "pending"
  /\ constructed' = FALSE
  /\ new_outputs' = {}
  /\ writes' = {}
  /\ surah' = 0
  /\ ayah_count' = 0
  /\ ayah' = 0
  /\ timings' = << >>
  /\ cumulative_time' = 0
  /\ idx' = 0
  /\ results' = << >>
  /\ fetch_log' = << >>
  /\ cached_at_fetch' = FALSE
  /\ probe_log' = << >>
  /\ trim_log' = << >>
  /\ processed' = {}
  /\ completed' = {}
  /\ empty_chapters' = {}
  /\ crash' = ""
  /\ UNCHANGED << start_surah, end_surah, input_files, output_dir, cache,
                  outputs >>

InitRerun == InitWith(RerunStartSurahs, RerunRangeLen)

\* one run in which every external call returns and the interpreter goes
\* on to the next statement: the program is a single thread
SpecFair == Spec /\ WF_vars(Next)

NextRerun == Next \/ Rerun

SpecRerun == InitRerun /\ [][NextRerun]_vars

\* =================================================================
\* Reference operators for the properties
\* =================================================================
\* a probe result that carries a duration of a record (seconds > 0)
Probed(r) == r > 0
\* the verse was skipped because the fetch or the probe failed
Failed(r) == r \in {NoFile, NoneVal}

\* sum of the probed durations of verses 1..k
RECURSIVE SumTo(_, _)
SumTo(r, k) ==
  IF k = 0 THEN 0
  ELSE SumTo(r, k - 1) + (IF Probed(r[k]) THEN r[k] ELSE 0)

\* the record verse k gets from the prefix sums
RefRecord(r, k) ==
  [ayah |-> k, start |-> SumTo(r, k - 1), duration |-> r[k],
   end |-> SumTo(r, k - 1) + r[k]]

\* prefix-sum fold over the probed verses among 1..k
RECURSIVE RefTimings(_, _)
RefTimings(r, k) ==
  IF k = 0 THEN << >>
  ELSE IF Probed(r[k]) THEN Append(RefTimings(r, k - 1), RefRecord(r, k))
       ELSE RefTimings(r, k - 1)

\* get_ayah_timings_from_reference has returned for the current chapter
ResolverReturned ==
  /\ pc \in {"fast", "fallback", "loop", "done", "crashed"}
  /\ ayah_count > 0
  /\ Len(results) = LastAyah(ayah_count)

\* chapter of an output or cache file code
SurahOf(code) == code \div 1000

\* -----------------------------------------------------------------
\* C1: the resolved timing list is never longer than the chapter's
\* declared verse count (nor than the number of verses visited), every
\* record ends where the next one starts, and the first record starts
\* at 0, whatever the fetches and probes returned.
C1_Contiguous ==
  /\ Len(timings) <= ayah_count
  /\ Len(timings) <= Len(results)
  /\ \A i \in 1 .. Len(timings) - 1 : timings[i].end = timings[i + 1].start
  /\ timings # << >> => timings[1].start = 0

\* the resolver returned a list of at least two records
C1_Witness ==
  /\ ResolverReturned
  /\ pc = "fast"
  /\ Len(timings) >= 2
  /\ timings[2].start > 0

\* -----------------------------------------------------------------
\* C2: when every verse of the chapter was fetched and probed with a
\* duration, the returned list has one record per verse, in verse order,
\* and record k starts at the sum of the durations before it, lasts the
\* probed duration and ends at start + duration.
C2_PrefixSums ==
  (ResolverReturned /\ \A k \in 1 .. Len(results) : Probed(results[k]))
    => /\ Len(timings) = LastAyah(ayah_count)
       /\ \A k \in 1 .. Len(timings) : timings[k] = RefRecord(results, k)

\* all verses probed, with two different durations
C2_Witness ==
  /\ ResolverReturned
  /\ \A k \in 1 .. Len(results) : Probed(results[k])
  /\ Len(timings) >= 2
  /\ timings[1].duration # timings[2].duration

\* -----------------------------------------------------------------
\* C3: a verse whose fetch or probe failed has no record and no
\* placeholder, and does not advance the cumulative time: the list is
\* the prefix-sum fold over the probed verses only.
C3_SkipOmitsVerse ==
  /\ \A k \in 1 .. Len(results) :
       Failed(results[k]) =>
         \A i \in 1 .. Len(timings) : timings[i].ayah # k
  /\ Len(timings) + Cardinality({k \in 1 .. Len(results) : Failed(results[k])})
       <= Len(results)
  /\ cumulative_time = SumTo(results, Len(results))
  /\ timings = RefTimings(results, Len(results))

\* a failed verse is followed by a verse that got a record
C3_Witness ==
  /\ ResolverReturned
  /\ \E k \in 1 .. Len(results) :
       /\ Failed(results[k])
       /\ \E i \in 1 .. Len(timings) : timings[i].ayah > k
  /\ \E k \in 1 .. Len(results) : results[k] = NoFile

\* -----------------------------------------------------------------
\* entries of the trim log
IsFast(e) == e.mode = "fast"
IsFallback(e) == e.mode = "fallback"
TrimFailed(e) == e.outcome # "ok"
\* same source, start, duration and destination
SameExtraction(a, b) ==
  a.src = b.src /\ a.ss = b.ss /\ a.t = b.t /\ a.dst = b.dst

\* the run is over: convert_all printed its banner or an exception left it
RunEnded == pc \in {"done", "crashed"}
\* chapters of the caller's range
Range == RangeOf(start_surah, end_surah)
\* the chapters the table has an entry for
Chapters == 1 .. Len(AYAH_COUNTS)

\* -----------------------------------------------------------------
\* C4: a failed fast trim (non-zero exit or invocation error) is followed
\* by the fallback trim of the same record with the same source, start,
\* duration and destination before the record is given up, and a fallback
\* trim only ever follows a failed fast trim of the same record (stated for
\* the chapters of the table).
C4_FallbackAfterFastFailure ==
  surah \in Chapters =>
  \A i \in 1 .. Len(trim_log) :
    LET e == trim_log[i] IN
    /\ (IsFast(e) /\ TrimFailed(e)) =>
         \/ (i = Len(trim_log) /\ pc = "fallback" /\ idx = e.idx)
         \/ /\ i < Len(trim_log)
            /\ IsFallback(trim_log[i + 1])
            /\ trim_log[i + 1].idx = e.idx
            /\ SameExtraction(trim_log[i + 1].args, e.args)
    /\ IsFallback(e) =>
         /\ i > 1
         /\ IsFast(trim_log[i - 1])
         /\ TrimFailed(trim_log[i - 1])
         /\ trim_log[i - 1].idx = e.idx

\* -----------------------------------------------------------------
\* C5: once the extractor loop of a chapter has been entered and left,
\* every record of the timing list has had its fast trim, whatever the
\* trims of earlier records did; a record whose two trims failed has no
\* output written in this run (stated for the chapters of the table).
C5_EveryRecordAttempted ==
  surah \in Chapters =>
  /\ (idx >= 1 /\ pc \notin {"fast", "fallback"}) =>
        \A r \in 1 .. Len(timings) :
          \E i \in 1 .. Len(trim_log) :
            IsFast(trim_log[i]) /\ trim_log[i].idx = r
  /\ \A i \in 1 .. Len(trim_log) :
       (IsFallback(trim_log[i]) /\ TrimFailed(trim_log[i]))
          => trim_log[i].args.dst \notin new_outputs

\* -----------------------------------------------------------------
\* C7: when the run is over, a chapter of the range that was skipped for
\* want of its source file has no new output file, and every later chapter
\* of the range has been processed (its split_surah call returned); stated
\* for ranges inside the table.
C7_MissingChapterSkipped ==
  Range \subseteq Chapters =>
  \A c \in Range :
    (c \in processed /\ InputMissing(c)) =>
       /\ \A f \in new_outputs : SurahOf(f) # c
       /\ RunEnded => \A c2 \in Range : c2 > c => c2 \in completed

\* -----------------------------------------------------------------
\* C8: a chapter whose resolver returned no record gets no trim and no
\* output, and when the run is over every later chapter of the range has
\* been processed; stated for ranges inside the table.
C8_EmptyChapterSkipped ==
  Range \subseteq Chapters =>
  \A c \in empty_chapters :
    /\ \A f \in new_outputs : SurahOf(f) # c
    /\ (surah = c + 1 /\ pc = "loop") => trim_log = << >>
    /\ RunEnded => \A c2 \in Range : c2 > c => c2 \in completed

\* -----------------------------------------------------------------
\* C9: no exception leaves convert_all, at completion every chapter of
\* the range has been processed, and while a chapter is resolved and
\* extracted its index is in 1..114 and the verse count is its table entry.
C9_ChaptersIndependent ==
  /\ pc # "crashed"
  /\ pc = "done" => Range \subseteq completed
  /\ pc \in {"download", "probe", "fast", "fallback"} =>
       /\ surah \in Chapters
       /\ ayah_count = AYAH_COUNTS[surah]

\* -----------------------------------------------------------------
\* C6: urlretrieve is called only for a file that is not in the cache; no
\* cached file is ever removed or fetched again; while every reference
\* file of the chapter being resolved is in the cache no fetch is made.
ChapterCached ==
  \A a \in 1 .. LastAyah(ayah_count) : FileCode(surah, a) \in cache

C6_NoFetchWhenCached ==
  /\ [](~cached_at_fetch)
  /\ [][ /\ cache \subseteq cache'
         /\ Len(fetch_log') > Len(fetch_log)
              => FileCode(surah, ayah) \notin cache
         /\ (pc \in {"download", "probe"} /\ ChapterCached)
              => fetch_log' = fetch_log ]_vars

\* a chapter was resolved from the cache alone: every verse probed, none
\* fetched
C6_Witness ==
  /\ ResolverReturned
  /\ pc = "fast"
  /\ fetch_log = << >>
  /\ Len(probe_log) = LastAyah(ayah_count)
  /\ ChapterCached

SecondRunEnded == run = 2 /\ pc \in TerminalPcs

Names(out) == {f[1] : f \in out}

HasRecord(k) == \E i \in 1 .. Len(timings) : timings[i].ayah = k

\* C13 as claimed: a visited verse whose asset was present and whose probe
\* returned a seconds value has a record; only a failed fetch or a failed
\* probe omits a verse.
C13_OmittedOnlyOnFailure ==
  \A k \in 1 .. Len(results) : ~Failed(results[k]) => HasRecord(k)

\* C13 amended: a visited verse has a record exactly when its asset was
\* present and the probe returned a non-zero seconds value, and the record
\* carries that value; a verse is omitted when the fetch failed, the probe
\* failed or the probe returned 0.0.
C13_OmittedOnFailureOrZero ==
  /\ \A k \in 1 .. Len(results) : HasRecord(k) <=> Probed(results[k])
  /\ \A i \in 1 .. Len(timings) :
       /\ timings[i].ayah \in 1 .. Len(results)
       /\ timings[i].duration = results[timings[i].ayah]

\* the probe returned 0.0 for verse 1 and a duration for verse 2
C13_Witness ==
  /\ ResolverReturned
  /\ Len(results) >= 2
  /\ results[1] = 0
  /\ Probed(results[2])
  /\ HasRecord(2)

\* -----------------------------------------------------------------
\* positions inside split_surah, where the operations of a chapter are
InChapter == pc \in {"timings", "download", "probe", "fast", "fallback"}
\* a step that appends to a log
Grows(log) == Len(log') = Len(log) + 1
StrictlyIncreasing(log) ==
  \A i \in 1 .. Len(log) : \A j \in 1 .. Len(log) : i < j => log[i] < log[j]

\* C14: chapters are taken one at a time in ascending order and no
\* operation of a chapter happens before every earlier chapter of the range
\* has returned; within a chapter every fetch and probe precedes the first
\* trim, the verses are fetched and probed in ascending order, and a verse
\* is probed only with its reference file present.
C14_Sequential ==
  /\ [](InChapter =>
          /\ surah \in Range
          /\ surah \notin completed
          /\ \A c \in Range : c < surah => c \in completed)
  /\ [](StrictlyIncreasing(fetch_log) /\ StrictlyIncreasing(probe_log))
  /\ [](pc \in {"download", "probe"} =>
          Len(results) = ayah - 1 /\ trim_log = << >>)
  /\ [][ /\ surah' # surah =>
              (surah' = surah + 1 /\ surah' > start_surah) \/ pc = "convert_all"
         /\ (Grows(fetch_log) \/ Grows(probe_log)) =>
              /\ InChapter
              /\ trim_log = << >> /\ trim_log' = << >>
         /\ Grows(fetch_log) => fetch_log'[Len(fetch_log')] = Len(results) + 1
         /\ Grows(probe_log) =>
              /\ probe_log'[Len(probe_log')] = Len(results) + 1
              /\ FileCode(surah, ayah) \in cache
         /\ Grows(trim_log) =>
              /\ InChapter
              /\ Len(results) = LastAyah(ayah_count)
              /\ fetch_log' = fetch_log /\ probe_log' = probe_log ]_vars

\* the second chapter of the range is being extracted after the first was
\* resolved and extracted
C14_Witness ==
  /\ pc = "fast"
  /\ surah = start_surah + 1
  /\ trim_log # << >>
  /\ fetch_log # << >>
  /\ start_surah \in completed
  /\ \E f \in new_outputs : SurahOf(f) = start_surah

\* -----------------------------------------------------------------
\* the trims that wrote their destination
Written == {trim_log[i].args.dst : i \in {j \in 1 .. Len(trim_log) :
                                            trim_log[j].outcome = "ok"}}

\* C15: whatever the input and output folders are, a trim step leaves the
\* reference cache and the input files as they were, and no file a trim
\* wrote is a file of the reference cache or an input chapter file.
C15_TrimFrame ==
  /\ [][ (pc = "fast" \/ pc = "fallback") =>
           (cache' = cache /\ input_files' = input_files) ]_vars
  /\ [](Range \subseteq Chapters =>
          \A d \in Written :
             /\ \A c \in cache : OutputPath(d) # RefPath(c)
             /\ \A s \in input_files : OutputPath(d) # InputPath(s))

\* -----------------------------------------------------------------
\* positions inside the resolver and the extractor of chapter `surah`
InSplit == pc \in {"download", "probe", "fast", "fallback"}
\* the files urlretrieve wrote for the chapter at work: a fetch is tried
\* only for an absent file and the cache loses none
FetchWritten == {c \in cache : \E i \in 1 .. Len(fetch_log) :
                                  c = FileCode(surah, fetch_log[i])}
\* the files created or overwritten under the output folder by the
\* current call of split_surah
WrittenToOutput ==
  Written \cup {c \in FetchWritten : RefPath(c) = OutputPath(c)}
\* the successful trim of a record of the timing list that wrote file f
TrimOf(f) ==
  \E i \in 1 .. Len(trim_log) :
     /\ trim_log[i].outcome = "ok"
     /\ trim_log[i].args.dst = f
     /\ trim_log[i].idx \in 1 .. Len(timings)
     /\ f = FileCode(surah, timings[trim_log[i].idx].ayah)

\* C16: inside split_surah(c) a file of the output folder is written only
\* for a verse with a record whose trim succeeded; the verses of the
\* records are strictly increasing and within 1..N, no two records have
\* the same destination, and a skipped verse is never trimmed.
C16_OutputOnlyFromRecord ==
  (InSplit /\ Range \subseteq Chapters) =>
     /\ \A f \in WrittenToOutput : TrimOf(f)
     /\ \A i \in 1 .. Len(timings) :
          /\ timings[i].ayah \in 1 .. ayah_count
          /\ \A j \in 1 .. Len(timings) :
               i < j => /\ timings[i].ayah < timings[j].ayah
                        /\ FastArgs(surah, timings[i]).dst
                             # FastArgs(surah, timings[j]).dst
     /\ \A i \in 1 .. Len(trim_log) :
          /\ trim_log[i].idx \in 1 .. Len(timings)
          /\ timings[trim_log[i].idx].ayah \in 1 .. Len(results)
          /\ Probed(results[timings[trim_log[i].idx].ayah])

\* -----------------------------------------------------------------
\* the number of entries of the trim log of one mode for record i
TrimsOf(i, m) ==
  Cardinality({j \in 1 .. Len(trim_log) :
                 trim_log[j].idx = i /\ trim_log[j].mode = m})

\* C17: when every external call returns, a run of convert_all over a
\* finite range ends; per chapter of N verses it fetches and probes each
\* verse at most once (at most N fetches, at most N probes), it invokes
\* the fast trim at most once and the fallback trim at most once per
\* record, and it takes each chapter of the range at most once.
C17_BoundedTermination ==
  /\ <>(pc \in TerminalPcs)
  /\ [](/\ Len(fetch_log) <= ayah_count
        /\ Len(probe_log) <= ayah_count
        /\ StrictlyIncreasing(fetch_log)
        /\ StrictlyIncreasing(probe_log)
        /\ Len(trim_log) <= 2 * Len(timings)
        /\ \A i \in 1 .. Len(timings) :
             /\ TrimsOf(i, "fast") <= 1
             /\ TrimsOf(i, "fallback") <= TrimsOf(i, "fast"))
  /\ [][ processed' # processed =>
           (surah \notin processed /\ processed' = processed \cup {surah}) ]_vars

\* a run that ended normally after a chapter in which a fetch, a probe, a
\* fast trim and a fallback trim were all made
C17_Witness ==
  /\ pc = "done"
  /\ Len(fetch_log) = MaxAyahs
  /\ Len(probe_log) = MaxAyahs
  /\ Len(timings) = MaxAyahs
  /\ Len(trim_log) = 2 * MaxAyahs

\* -----------------------------------------------------------------
\* C18: the input file is looked for before the resolver is called: for a
\* chapter whose input file is absent no fetch and no probe is made and the
\* reference cache stays as it is; the call returns and the loop goes on.
C18_MissingInputNoResolver ==
  /\ [](InChapter => surah \in input_files)
  /\ [][ /\ (Grows(fetch_log) \/ Grows(probe_log) \/ cache' # cache) =>
              surah \in input_files
         /\ (pc = "loop" /\ surah <= end_surah /\ surah \notin input_files) =>
              /\ cache' = cache
              /\ fetch_log' = fetch_log /\ probe_log' = probe_log
              /\ pc' = "loop" /\ surah' = surah + 1 ]_vars

\* the last chapter of the range had no input file and was passed over,
\* after a chapter that was fetched for; none of its reference files is
\* in the cache
C18_Witness ==
  /\ pc = "loop"
  /\ surah = end_surah + 1
  /\ end_surah \in completed \ input_files
  /\ fetch_log # << >>
  /\ \A c \in cache : SurahOf(c) # end_surah
====
